---- MODULE Spec2Model ----
(***************************************************************************)
(* The experimental `cf login` command of command/v6/login_command.go:     *)
(* LoginCommand.Execute and the methods it calls, as one sequential        *)
(* process.  Every call to a collaborator (UI, Actor, Config, makers) is   *)
(* logged in `trace`; the collaborators' answers are the nondeterminism.   *)
(***************************************************************************)
EXTENDS Integers, Sequences, FiniteSets, TLC

VARIABLES
    cmd,          \* the LoginCommand's fields (flags, Actor, Checker)
    config,       \* command.Config: the session/configuration store
    server,       \* what the targeted API answers (login prompts, warnings)
    pc,           \* position of Execute
    deferred,     \* "defer cmd.showStatus()" has been executed
    prompts,      \* local `prompts` of authenticate / authenticateSSO
    credentials,  \* local `credentials` map
    passwordKeys, \* local `passwordKeys` slice of authenticate
    rangeTodo,    \* keys the range loop over `prompts` has not visited yet
    i,            \* loop counter of the retry loop
    j,            \* index of the range loop over passwordKeys
    orgs,         \* local `orgs` of Execute
    result,       \* the error Execute returned ("running" before it returns)
    trace         \* every collaborator call so far, in order

vars == <<cmd, config, server, pc, deferred, prompts, credentials, passwordKeys,
          rangeTodo, i, j, orgs, result, trace>>

-----------------------------------------------------------------------------
(* Bounds and constants *)

\* const maxLoginTries = 3
maxLoginTries == 3

\* the longest organization list GetOrganizations answers with
MaxOrgs == 3

\* coreconfig.AuthPromptTypeText / AuthPromptTypePassword
AuthPromptTypeText == "TEXT"
AuthPromptTypePassword == "PASSWORD"
PromptTypes == {AuthPromptTypeText, AuthPromptTypePassword}

\* prompt keys a server may declare: the three the code names and one
\* multi-factor field
PromptKeys == {"username", "password", "passcode", "otp"}

\* every login-prompt map over PromptKeys: key -> prompt type
AllSchemas == UNION {[K -> PromptTypes] : K \in SUBSET PromptKeys}

\* the schema of the scenarios of the specification, and two more
ScenarioSchema ==
    [k \in {"username", "password", "otp"} |->
        IF k = "username" THEN AuthPromptTypeText ELSE AuthPromptTypePassword]
PasscodeSchema == [k \in {"passcode"} |-> AuthPromptTypePassword]
EmptySchema == [k \in {} |-> AuthPromptTypeText]

\* errors
Nil == "nil"
EOF == "EOF"
ReadErrors == {EOF, "read error"}
AccountLockedError == "uaa.AccountLockedError"
AuthErrors == {"uaa.UnauthorizedError", AccountLockedError}
UnableToAuthenticate == "Unable to authenticate."
ServiceAccountError == "Service account currently logged in."
ArgumentCombinationError == "ArgumentCombinationError{--sso-passcode, --sso}"
UnrefactoredCommandError == "UnrefactoredCommandError"
ErrorChoosingOrganization == "Error Choosing Organization"
NilDereference == "panic: nil pointer dereference"

\* warnings the Actor returns with its answers
TargetWarnings == <<"target warning">>
OrgWarnings == <<"organization warning">>

\* v3action.Organization; the zero value is the empty organization
Org(n) == [GUID |-> 100 + n, Name |-> n]
emptyOrg == [GUID |-> 0, Name |-> 0]
OrgList(n) == [k \in 1..n |-> Org(k)]

\* credential values carry where they came from: a flag, or the n-th
\* collaborator call (an interactive read)
FlagValue(flag) == [src |-> flag, n |-> 0]
Typed(n) == [src |-> "typed", n |-> n]
NoCreds == [k \in {} |-> Typed(0)]

\* m with m[k] = v, k added to the domain when absent
Put(m, k, v) == [x \in DOMAIN m \cup {k} |-> IF x = k THEN v ELSE m[x]]

-----------------------------------------------------------------------------
(* The log of collaborator calls *)

NoEvent ==
    [ev |-> "", key |-> "", secret |-> FALSE, try |-> 0, creds |-> NoCreds,
     res |-> Nil, org |-> emptyOrg, name |-> 0, client |-> "", by |-> "Execute",
     url |-> <<>>, skip |-> FALSE, warnings |-> <<>>]

Event(ev, res) == [NoEvent EXCEPT !.ev = ev, !.res = res]

\* cmd.UI.DisplayTextPrompt (secret FALSE) or DisplayPasswordPrompt (secret
\* TRUE) for the credential `key`, called by the method `by` during attempt
\* `try` (0 before the retry loop)
PromptEvent(by, key, secret, try, res) ==
    [NoEvent EXCEPT !.ev = "Prompt", !.key = key, !.secret = secret,
                    !.try = try, !.res = res, !.by = by]

\* the credential `key` is taken from a flag of the command line instead
FlagEvent(by, key, try) ==
    [NoEvent EXCEPT !.ev = "Flag", !.key = key, !.try = try, !.by = by]

\* the serial number the next logged call gets
Serial == Len(trace) + 1

\* cmd.UI.DisplayWarnings(warnings)
DisplayWarnings(tr, warnings) ==
    Append(tr, [Event("DisplayWarnings", Nil) EXCEPT !.warnings = warnings])

-----------------------------------------------------------------------------
(* Endpoints: strings are sequences of tokens, a token being a word or one
   of the characters "/", ":" and "%" *)

\* the most trailing slashes an endpoint of the command line has
MaxSlashes == 2

\* words that can be a URI scheme (a letter, then letters, digits, "+-."),
\* and words that cannot (they start with a digit)
SchemeWords == {"https", "http", "api.example.com", "configured.example.com",
                "typed.example.com"}
OtherWords == {"8080", "10.0.0.1"}

BareHost == <<"api.example.com">>
WithScheme(scheme) == <<scheme, ":", "/", "/", "api.example.com">>
HostPort == <<"api.example.com", ":", "8080">>
IPPort == <<"10.0.0.1", ":", "8080">>
BadEscape == <<"%">>
Slashes(n) == [k \in 1..n |-> "/"]
ConfiguredTarget == <<"https", ":", "/", "/", "configured.example.com">>
TypedEndpoint == <<"typed.example.com">>

\* the endpoints given with -a
Endpoints ==
    {b \o Slashes(n) : b \in {BareHost, WithScheme("https"), WithScheme("http"),
                              HostPort},
                       n \in 0..MaxSlashes}
    \cup {IPPort, BadEscape}

-----------------------------------------------------------------------------
(* Initial state: the command after Setup, before Execute *)

Flags ==
    [APIEndpoint : {<<>>} \cup Endpoints,
     SkipSSLValidation : BOOLEAN,
     Organization : {0, 1},
     Password : {"", "pw1"},
     Username : {"", "user1"},
     SSO : BOOLEAN,
     SSOPasscode : {"", "pc1"},
     Actor : {"pre-target"},
     Checker : {"none"}]

Configs ==
    [ExperimentalLogin : BOOLEAN,
     Target : {<<>>, ConfiguredTarget},
     SkipSSLValidation : BOOLEAN,
     UAAGrantType : {"", "client_credentials"},
     org : {emptyOrg},
     MinCLIVersion : {""}]

\* every flag and configuration combination against three schemas
InitFlags ==
    /\ cmd \in Flags
    /\ cmd.APIEndpoint \in {<<>>, BareHost, BadEscape}
    /\ ~cmd.SkipSSLValidation
    /\ config \in Configs
    /\ ~config.SkipSSLValidation
    /\ cmd.APIEndpoint # <<>> => config.Target = <<>>
    /\ server \in [prompts : {ScenarioSchema, PasscodeSchema, EmptySchema},
                   warnings : {TargetWarnings}]

\* every schema against the flags of the password flow
InitSchemas ==
    /\ cmd \in Flags
    /\ cmd.APIEndpoint = BareHost /\ cmd.Organization # 0
    /\ ~cmd.SkipSSLValidation
    /\ ~cmd.SSO /\ cmd.SSOPasscode = ""
    /\ config \in Configs
    /\ ~config.SkipSSLValidation
    /\ config.ExperimentalLogin /\ config.Target = <<>> /\ config.UAAGrantType = ""
    /\ server \in [prompts : AllSchemas, warnings : {TargetWarnings}]

\* every endpoint, certificate setting and target answer against the
\* password flow of a server that declares no prompts
InitEndpoints ==
    /\ cmd \in Flags
    /\ cmd.APIEndpoint # <<>> /\ cmd.Organization # 0
    /\ cmd.Password = "" /\ cmd.Username = ""
    /\ ~cmd.SSO /\ cmd.SSOPasscode = ""
    /\ config \in Configs
    /\ config.ExperimentalLogin /\ config.Target = <<>> /\ config.UAAGrantType = ""
    /\ server \in [prompts : {EmptySchema}, warnings : {<<>>, TargetWarnings}]

Init ==
    /\ InitFlags \/ InitSchemas \/ InitEndpoints
    /\ pc = "start"
    /\ deferred = FALSE
    /\ prompts = EmptySchema
    /\ credentials = NoCreds
    /\ passwordKeys = <<>>
    /\ rangeTodo = {}
    /\ i = 0
    /\ j = 0
    /\ orgs = <<>>
    /\ result = "running"
    /\ trace = <<>>

-----------------------------------------------------------------------------
(* Leaving Execute *)

\* showStatus: which of the three tables is rendered
StatusVariant(userKnown, org) ==
    IF ~userKnown THEN "not logged in"
    ELSE IF org.Name = 0 THEN "not targeted"
    ELSE "targeted"

showStatus(tr, userKnown) ==
    Append(tr, [Event("showStatus", StatusVariant(userKnown, config.org))
                    EXCEPT !.org = config.org])

\* Execute goes on to the statement at `next` having logged `tr`
Continue(next, tr) ==
    /\ pc' = next
    /\ trace' = tr
    /\ result' = result

\* mutant: showStatus is not deferred
Return_NoStatus(err, tr) ==
    /\ pc' = "done"
    /\ result' = err
    /\ trace' = tr

\* Execute returns err having logged tr; the deferred showStatus runs
Return(err, tr) ==
    /\ pc' = "done"
    /\ result' = err
    /\ IF deferred
       THEN \E userKnown \in BOOLEAN : trace' = showStatus(tr, userKnown)
       ELSE trace' = tr

-----------------------------------------------------------------------------
(* Execute up to the choice of the flow *)

CheckExperimental ==
    /\ pc = "start"
    /\ IF ~config.ExperimentalLogin
       THEN Return(UnrefactoredCommandError, trace)
       ELSE Continue("endpoint", trace)
    /\ UNCHANGED <<cmd, config, server, deferred, prompts, credentials,
                   passwordKeys, rangeTodo, i, j, orgs>>

ResolveEndpoint ==
    /\ pc = "endpoint"
    /\ IF cmd.APIEndpoint # <<>>
       THEN /\ Continue("target", trace)
            /\ cmd' = cmd
       ELSE IF config.Target # <<>>
       THEN /\ Continue("target", trace)
            /\ cmd' = [cmd EXCEPT !.APIEndpoint = config.Target]
       ELSE \E r \in {Nil} \cup ReadErrors :
            LET tr == Append(trace, Event("DisplayTextPrompt(API endpoint)", r)) IN
            IF r # Nil
            THEN Return(r, tr) /\ cmd' = cmd
            ELSE /\ Continue("target", tr)
                 /\ cmd' = [cmd EXCEPT !.APIEndpoint = TypedEndpoint]
    /\ UNCHANGED <<config, server, deferred, prompts, credentials,
                   passwordKeys, rangeTodo, i, j, orgs>>

\* strings.TrimRight(s, cutset) for a cutset of one character
RECURSIVE TrimRight(_, _)
TrimRight(s, cutset) ==
    IF s # <<>> /\ s[Len(s)] = cutset
    THEN TrimRight(SubSeq(s, 1, Len(s) - 1), cutset)
    ELSE s

\* *url.URL; url.Parse returns nil with an error
NilURL == [ok |-> FALSE, Scheme |-> "", Opaque |-> <<>>, Host |-> <<>>, Path |-> <<>>]
URL(scheme, opaque, host, path) ==
    [ok |-> TRUE, Scheme |-> scheme, Opaque |-> opaque, Host |-> host, Path |-> path]

\* the position of the first "/" of s, Len(s) + 1 when it has none
FirstSlash(s) ==
    IF \E k \in 1..Len(s) : s[k] = "/"
    THEN CHOOSE k \in 1..Len(s) : s[k] = "/" /\ \A m \in 1..(k - 1) : s[m] # "/"
    ELSE Len(s) + 1

\* url.Parse(rawURL): the scheme is what stands before the first ":" when
\* that is a scheme word; what follows a scheme without a leading "/" is
\* opaque; "//" starts the authority; without a scheme a ":" in the first
\* path segment is an error, as are a leading ":" and the escape "%"
Parse(rawURL) ==
    IF \E k \in 1..Len(rawURL) : rawURL[k] = "%" THEN NilURL
    ELSE IF rawURL # <<>> /\ rawURL[1] = ":" THEN NilURL
    ELSE
    LET hasScheme == Len(rawURL) >= 2 /\ rawURL[1] \in SchemeWords /\ rawURL[2] = ":"
        scheme == IF hasScheme THEN rawURL[1] ELSE ""
        rest == IF hasScheme THEN SubSeq(rawURL, 3, Len(rawURL)) ELSE rawURL
        rooted == rest # <<>> /\ rest[1] = "/"
        segment == SubSeq(rest, 1, FirstSlash(rest) - 1)
        authority == SubSeq(rest, 3, Len(rest))
        cut == FirstSlash(authority)
    IN  IF ~rooted /\ hasScheme THEN URL(scheme, rest, <<>>, <<>>)
        ELSE IF ~rooted /\ \E k \in 1..Len(segment) : segment[k] = ":" THEN NilURL
        ELSE IF /\ Len(rest) >= 2 /\ rest[2] = "/"
                /\ hasScheme \/ ~(Len(rest) >= 3 /\ rest[3] = "/")
        THEN URL(scheme, <<>>, SubSeq(authority, 1, cut - 1),
                 SubSeq(authority, cut, Len(authority)))
        ELSE URL(scheme, <<>>, <<>>, rest)

\* (*url.URL).String() of a URL that has a scheme or a host
String(u) ==
    LET scheme == IF u.Scheme # "" THEN <<u.Scheme, ":">> ELSE <<>>
        slashes == IF /\ u.Scheme # "" \/ u.Host # <<>>
                      /\ u.Host # <<>> \/ u.Path # <<>>
                   THEN <<"/", "/">> ELSE <<>>
        sep == IF u.Path # <<>> /\ u.Path[1] # "/" /\ u.Host # <<>>
               THEN <<"/">> ELSE <<>>
    IN  IF u.Opaque # <<>>
        THEN scheme \o u.Opaque
        ELSE scheme \o slashes \o u.Host \o sep \o u.Path

\* url.Parse returns a URL for the stripped endpoint, not nil
Parses(endpoint) == Parse(TrimRight(endpoint, "/")).ok

\* "if endpoint.Scheme == '' { endpoint.Scheme = 'https' }"
DefaultScheme(endpoint) ==
    IF endpoint.Scheme = "" THEN [endpoint EXCEPT !.Scheme = "https"] ELSE endpoint

\* ccv3.TargetSettings{URL, SkipSSLValidation} built from the endpoint, the
\* configuration and the flag
TargetSettings(endpoint, configured, flag) ==
    [URL |-> String(DefaultScheme(Parse(TrimRight(endpoint, "/")))),
     SkipSSLValidation |-> configured \/ flag]

\* the target settings are built and SetTarget is called; endpoint.Scheme
\* dereferences the nil URL of an endpoint that does not parse.  The
\* warnings SetTarget returns are assigned to the blank identifier.
SetTarget ==
    /\ pc = "target"
    /\ IF ~Parses(cmd.APIEndpoint)
       THEN Return(NilDereference, trace)
       ELSE \E r \in {Nil, "target error"} :
            LET settings == TargetSettings(cmd.APIEndpoint, config.SkipSSLValidation,
                                           cmd.SkipSSLValidation)
                tr == Append(trace, [Event("SetTarget", r)
                                       EXCEPT !.client = cmd.Actor,
                                              !.url = settings.URL,
                                              !.skip = settings.SkipSSLValidation,
                                              !.warnings = server.warnings]) IN
            IF r # Nil THEN Return(r, tr) ELSE Continue("reload", tr)
    /\ UNCHANGED <<cmd, config, server, deferred, prompts, credentials,
                   passwordKeys, rangeTodo, i, j, orgs>>

\* mutant: the new client is not stored in the command
RebuiltActor_NotStored(c) == c

\* "cmd.Actor = v3action.NewActor(ccClient, cmd.Config, nil, nil)"
RebuiltActor(c) == [c EXCEPT !.Actor = "post-target"]

\* reloadActor, and on its success the defer of showStatus
ReloadActor ==
    /\ pc = "reload"
    /\ \E r \in {Nil, "actor error"} :
        LET tr == Append(trace, Event("NewActor", r)) IN
        IF r # Nil
        THEN Return(r, tr) /\ UNCHANGED <<cmd, deferred>>
        ELSE /\ Continue("grant", tr)
             /\ cmd' = RebuiltActor(cmd)
             /\ deferred' = TRUE
    /\ UNCHANGED <<config, server, prompts, credentials,
                   passwordKeys, rangeTodo, i, j, orgs>>

\* mutant: the grant type is not checked
IsServiceAccount_Never(grantType) == FALSE

\* the session holds the grant of a service account
IsServiceAccount(grantType) == grantType = "client_credentials"

CheckGrantType ==
    /\ pc = "grant"
    /\ IF IsServiceAccount(config.UAAGrantType)
       THEN Return(ServiceAccountError, trace)
       ELSE Continue("flow", trace)
    /\ UNCHANGED <<cmd, config, server, deferred, prompts, credentials,
                   passwordKeys, rangeTodo, i, j, orgs>>

\* mutant: the flags are not checked against each other
FlowOf_NoCheck(sso, passcode) ==
    IF sso \/ passcode # "" THEN "authenticateSSO" ELSE "authenticate"

\* the flow the flags select: "" stands for the argument-combination error
FlowOf(sso, passcode) ==
    IF sso \/ passcode # ""
    THEN IF sso /\ passcode # "" THEN "" ELSE "authenticateSSO"
    ELSE "authenticate"

ChooseFlow ==
    /\ pc = "flow"
    /\ IF FlowOf(cmd.SSO, cmd.SSOPasscode) = ""
       THEN Return(ArgumentCombinationError, trace)
       ELSE Continue(FlowOf(cmd.SSO, cmd.SSOPasscode), trace)
    /\ UNCHANGED <<cmd, config, server, deferred, prompts, credentials,
                   passwordKeys, rangeTodo, i, j, orgs>>

\* mutant: the error of the flow is ignored
AuthReturn_Ignored(err, tr) == Continue("org", tr)

\* mutant: the error of the flow is returned as it is
AuthReturn_AsIs(err, tr) ==
    IF err # Nil THEN Return(err, tr) ELSE Continue("org", tr)

\* "if authErr != nil" after the flow returned err
AuthReturn(err, tr) ==
    IF err # Nil THEN Return(UnableToAuthenticate, tr) ELSE Continue("org", tr)

-----------------------------------------------------------------------------
(* authenticate: the password flow *)

\* cmd.Actor.Authenticate(credentialsCopy, "", GrantTypePassword), attempt `try`
AuthenticateEvent(by, creds, try, res) ==
    [NoEvent EXCEPT !.ev = "Authenticate", !.creds = creds, !.try = try,
                    !.res = res, !.client = cmd.Actor, !.by = by]

\* mutant: the loop bound is off by one
MoreTries_OffByOne(n) == n <= maxLoginTries

\* "for i := 0; i < maxLoginTries; i++": another round after n rounds
MoreTries(n) == n < maxLoginTries

\* the breaks of authenticate's loop: success, or the account is locked
PwBreaks(err) == err = Nil \/ err = AccountLockedError

\* the username flag is used instead of a prompt
UsernameFromFlag(type, username) == type = AuthPromptTypeText /\ username # ""

\* the password flag is used instead of a prompt
PasswordFromFlag(password) == password # ""

\* mutant: the password flag is not cleared after use
PasswordUsed_NotCleared(c) == c

\* the command once the password flag has been used: cmd.Password = ""
PasswordUsed(c) == [c EXCEPT !.Password = ""]

\* mutant: secret prompts are not deferred to passwordPrompts
RangeEffect_NoDeferral(key, type) ==
    IF key = "username" THEN "continue" ELSE "prompt"

\* what the range loop over prompts does with one key
RangeEffect(key, type) ==
    IF type = AuthPromptTypePassword
    THEN IF key = "passcode" \/ key = "password" THEN "continue" ELSE "append"
    ELSE IF key = "username" THEN "continue" ELSE "prompt"

\* where authenticate goes once the range loop has visited every key in todo
AfterRange(todo) == IF todo = {} THEN "passwordPrompts" ELSE "range"

\* where passwordPrompts goes after the key at index k of passwordKeys
AfterSecret(k, keys) == IF k >= Len(keys) THEN "Authenticate" ELSE "secrets"

GetLoginPrompts ==
    /\ pc = "authenticate"
    /\ prompts' = server.prompts
    /\ credentials' = NoCreds
    /\ Continue("username", Append(trace, [Event("GetLoginPrompts", Nil)
                 EXCEPT !.client = cmd.Actor, !.by = "authenticate"]))
    /\ UNCHANGED <<cmd, config, server, deferred, passwordKeys, rangeTodo,
                   i, j, orgs>>

PromptUsername ==
    /\ pc = "username"
    /\ IF "username" \in DOMAIN prompts
       THEN IF UsernameFromFlag(prompts["username"], cmd.Username)
            THEN /\ credentials' = Put(credentials, "username", FlagValue("-u"))
                 /\ Continue(AfterRange(DOMAIN prompts),
                             Append(trace, FlagEvent("authenticate", "username", 0)))
            ELSE \E r \in {Nil} \cup ReadErrors :
                 LET tr == Append(trace, PromptEvent("authenticate", "username",
                                                     FALSE, 0, r)) IN
                 IF r # Nil
                 THEN AuthReturn(r, tr) /\ credentials' = credentials
                 ELSE /\ credentials' = Put(credentials, "username", Typed(Serial))
                      /\ Continue(AfterRange(DOMAIN prompts), tr)
       ELSE /\ credentials' = credentials
            /\ Continue(AfterRange(DOMAIN prompts), trace)
    /\ rangeTodo' = DOMAIN prompts
    /\ passwordKeys' = <<>>
    /\ i' = 0
    /\ UNCHANGED <<cmd, config, server, deferred, prompts, j, orgs>>

\* one iteration of "for key, prompt := range prompts", in any order
RangePrompts ==
    /\ pc = "range"
    /\ \E key \in rangeTodo :
        LET effect == RangeEffect(key, prompts[key])
            todo == rangeTodo \ {key}
        IN  /\ rangeTodo' = todo
            /\ passwordKeys' = IF effect = "append"
                               THEN Append(passwordKeys, key) ELSE passwordKeys
            /\ IF effect = "prompt"
               THEN \E r \in {Nil} \cup ReadErrors :
                    LET tr == Append(trace, PromptEvent("authenticate", key,
                                                        FALSE, 0, r)) IN
                    IF r # Nil
                    THEN AuthReturn(r, tr) /\ credentials' = credentials
                    ELSE /\ credentials' = Put(credentials, key, Typed(Serial))
                         /\ Continue(AfterRange(todo), tr)
               ELSE /\ credentials' = credentials
                    /\ Continue(AfterRange(todo), trace)
    /\ UNCHANGED <<cmd, config, server, deferred, prompts, i, j, orgs>>

\* passwordPrompts up to the loop over passwordKeys
PromptPassword ==
    /\ pc = "passwordPrompts"
    /\ IF "password" \in DOMAIN prompts
       THEN IF PasswordFromFlag(cmd.Password)
            THEN /\ credentials' = Put(credentials, "password", FlagValue("-p"))
                 /\ cmd' = PasswordUsed(cmd)
                 /\ Continue(AfterSecret(0, passwordKeys),
                             Append(trace, FlagEvent("passwordPrompts", "password", i + 1)))
            ELSE \E r \in {Nil} \cup ReadErrors :
                 LET tr == Append(trace, PromptEvent("passwordPrompts", "password",
                                                     TRUE, i + 1, r)) IN
                 /\ cmd' = cmd
                 /\ IF r # Nil
                    THEN AuthReturn(r, tr) /\ credentials' = credentials
                    ELSE /\ credentials' = Put(credentials, "password", Typed(Serial))
                         /\ Continue(AfterSecret(0, passwordKeys), tr)
       ELSE /\ UNCHANGED <<cmd, credentials>>
            /\ Continue(AfterSecret(0, passwordKeys), trace)
    /\ j' = 1
    /\ UNCHANGED <<config, server, deferred, prompts, passwordKeys, rangeTodo,
                   i, orgs>>

\* one iteration of "for _, key := range passwordKeys"
PromptSecret ==
    /\ pc = "secrets"
    /\ \E r \in {Nil} \cup ReadErrors :
        LET key == passwordKeys[j]
            tr == Append(trace, PromptEvent("passwordPrompts", key, TRUE, i + 1, r))
        IN  IF r # Nil
            THEN AuthReturn(r, tr) /\ UNCHANGED <<credentials, j>>
            ELSE /\ credentials' = Put(credentials, key, Typed(Serial))
                 /\ j' = j + 1
                 /\ Continue(AfterSecret(j, passwordKeys), tr)
    /\ UNCHANGED <<cmd, config, server, deferred, prompts, passwordKeys,
                   rangeTodo, i, orgs>>

\* the rest of one round of authenticate's loop, and its exit
Authenticate ==
    /\ pc = "Authenticate"
    /\ \E r \in {Nil} \cup AuthErrors :
        LET tr == Append(trace, AuthenticateEvent("authenticate", credentials,
                                                  i + 1, r)) IN
        IF ~PwBreaks(r) /\ MoreTries(i + 1)
        THEN /\ i' = i + 1
             /\ Continue("passwordPrompts", tr)
        ELSE /\ i' = i
             /\ AuthReturn(r, tr)
    /\ UNCHANGED <<cmd, config, server, deferred, prompts, credentials,
                   passwordKeys, rangeTodo, j, orgs>>

-----------------------------------------------------------------------------
(* authenticateSSO: the SSO flow *)

\* the break of authenticateSSO's loop: success only
SSOBreaks(err) == err = Nil

\* the passcode flag is used instead of a prompt
PasscodeFromFlag(passcode) == passcode # ""

\* mutant: the passcode flag is not cleared after use
PasscodeUsed_NotCleared(c) == c

\* the command once the passcode flag has been used: cmd.SSOPasscode = ""
PasscodeUsed(c) == [c EXCEPT !.SSOPasscode = ""]

GetLoginPromptsSSO ==
    /\ pc = "authenticateSSO"
    /\ prompts' = server.prompts
    /\ credentials' = NoCreds
    /\ i' = 0
    /\ Continue("passcode", Append(trace, [Event("GetLoginPrompts", Nil)
                 EXCEPT !.client = cmd.Actor, !.by = "authenticateSSO"]))
    /\ UNCHANGED <<cmd, config, server, deferred, passwordKeys, rangeTodo,
                   j, orgs>>

PromptPasscode ==
    /\ pc = "passcode"
    /\ IF PasscodeFromFlag(cmd.SSOPasscode)
       THEN /\ credentials' = Put(credentials, "passcode", FlagValue("--sso-passcode"))
            /\ cmd' = PasscodeUsed(cmd)
            /\ Continue("AuthenticateSSO",
                        Append(trace, FlagEvent("authenticateSSO", "passcode", i + 1)))
       ELSE \E r \in {Nil} \cup ReadErrors :
            LET tr == Append(trace, PromptEvent("authenticateSSO", "passcode",
                                                TRUE, i + 1, r)) IN
            /\ cmd' = cmd
            /\ IF r # Nil
               THEN AuthReturn(r, tr) /\ credentials' = credentials
               ELSE /\ credentials' = Put(credentials, "passcode", Typed(Serial))
                    /\ Continue("AuthenticateSSO", tr)
    /\ UNCHANGED <<config, server, deferred, prompts, passwordKeys, rangeTodo,
                   i, j, orgs>>

AuthenticateSSO ==
    /\ pc = "AuthenticateSSO"
    /\ \E r \in {Nil} \cup AuthErrors :
        LET tr == Append(trace, AuthenticateEvent("authenticateSSO", credentials,
                                                  i + 1, r)) IN
        IF ~SSOBreaks(r) /\ MoreTries(i + 1)
        THEN /\ i' = i + 1
             /\ Continue("passcode", tr)
        ELSE /\ i' = i
             /\ AuthReturn(r, tr)
    /\ UNCHANGED <<cmd, config, server, deferred, prompts, credentials,
                   passwordKeys, rangeTodo, j, orgs>>

-----------------------------------------------------------------------------
(* Execute after a successful authentication *)

\* cmd.Config.SetOrganizationInformation(org.GUID, org.Name)
SetOrganizationInformation(tr, org) ==
    Append(tr, [Event("SetOrganizationInformation", Nil) EXCEPT !.org = org])

\* mutant: the menu choice is not compared with the names
OrgNamed_First(list, name) == list[1]

\* the organization of orgs named name, the empty one when there is none
OrgNamed(list, name) ==
    IF \E k \in 1..Len(list) : list[k].Name = name
    THEN list[CHOOSE k \in 1..Len(list) : list[k].Name = name]
    ELSE emptyOrg

\* the switch on len(orgs)
OrgsCase(n) == IF n = 1 THEN "one" ELSE IF n > 1 THEN "menu" ELSE "none"

\* mutant: end of input at the menu is an error like any other
IsDecline_Never(err) == FALSE

\* promptChosenOrg treats this read error of the menu as a decline
IsDecline(err) == err = EOF

\* "if cmd.Organization != ''": the organization is looked up by name
GetOrganizationByName ==
    /\ pc = "org"
    /\ cmd.Organization # 0
    /\ \E r \in {Nil, "lookup error"} :
        LET tr == Append(trace, [Event("GetOrganizationByName", r)
                                   EXCEPT !.name = cmd.Organization,
                                          !.client = cmd.Actor])
            org == Org(cmd.Organization)
            shown == DisplayWarnings([tr EXCEPT ![Len(tr)].org =
                                         IF r = Nil THEN org ELSE emptyOrg,
                                      ![Len(tr)].warnings = OrgWarnings],
                                     OrgWarnings)
        IN  IF r # Nil
            THEN Return(r, shown) /\ config' = config
            ELSE /\ config' = [config EXCEPT !.org = org]
                 /\ Continue("version", SetOrganizationInformation(shown, org))
    /\ UNCHANGED <<cmd, server, deferred, prompts, credentials, passwordKeys,
                   rangeTodo, i, j, orgs>>

\* else: the organizations are listed
GetOrganizations ==
    /\ pc = "org"
    /\ cmd.Organization = 0
    /\ \E r \in {Nil, "list error"} : \E n \in 0..MaxOrgs :
        LET list == IF r = Nil THEN OrgList(n) ELSE <<>>
            tr == DisplayWarnings(
                      Append(trace, [Event("GetOrganizations", r)
                                       EXCEPT !.try = Len(list),
                                              !.client = cmd.Actor,
                                              !.warnings = OrgWarnings]),
                      OrgWarnings)
        IN  IF r # Nil
            THEN Return(r, tr) /\ UNCHANGED <<config, orgs>>
            ELSE /\ orgs' = list
                 /\ IF OrgsCase(Len(list)) = "one"
                    THEN /\ config' = [config EXCEPT !.org = list[1]]
                         /\ Continue("version", SetOrganizationInformation(tr, list[1]))
                    ELSE /\ config' = config
                         /\ Continue(IF OrgsCase(Len(list)) = "menu"
                                     THEN "menu" ELSE "version", tr)
    /\ UNCHANGED <<cmd, server, deferred, prompts, credentials, passwordKeys,
                   rangeTodo, i, j>>

\* promptChosenOrg and the use Execute makes of its result
PromptChosenOrg ==
    /\ pc = "menu"
    /\ \E r \in {Nil} \cup ReadErrors : \E name \in 1..(Len(orgs) + 1) :
        LET chosenOrgName == IF r = Nil THEN name ELSE 0
            tr == Append(trace, [Event("DisplayTextMenu", r)
                                   EXCEPT !.name = chosenOrgName])
            chosenOrg == OrgNamed(orgs, chosenOrgName)
        IN  IF IsDecline(r)
            THEN Continue("version", tr) /\ config' = config
            ELSE IF r # Nil
            THEN Return(r, tr) /\ config' = config
            ELSE IF chosenOrg = emptyOrg
            THEN Return(ErrorChoosingOrganization, tr) /\ config' = config
            ELSE /\ config' = [config EXCEPT !.org = chosenOrg]
                 /\ Continue("version", SetOrganizationInformation(tr, chosenOrg))
    /\ UNCHANGED <<cmd, server, deferred, prompts, credentials, passwordKeys,
                   rangeTodo, i, j, orgs>>

\* command.WarnIfCLIVersionBelowAPIDefinedMinimum: warns when the client is
\* older than the minimum, and returns no error
WarnIfCLIVersionBelowAPIDefinedMinimum(tr, outdated) ==
    [err |-> Nil,
     tr |-> Append(tr, Event("WarnIfCLIVersionBelowAPIDefinedMinimum",
                             IF outdated THEN "warning" ELSE "no warning"))]

\* mutant: the error of NewVersionChecker is dropped
CheckerResult_Dropped(err, warnErr) == warnErr

\* what checkMinCLIVersion returns when NewVersionChecker returned err and
\* the comparison returned warnErr
CheckerResult(err, warnErr) == IF err # Nil THEN err ELSE warnErr

\* checkMinCLIVersion and the end of Execute
CheckMinCLIVersion ==
    /\ pc = "version"
    /\ \E r \in {Nil, "checker error"} : \E outdated \in BOOLEAN :
        LET tr == Append(trace, Event("NewVersionChecker", r))
            set == Append(tr, Event("SetMinCLIVersion", Nil))
            warn == WarnIfCLIVersionBelowAPIDefinedMinimum(set, outdated)
        IN  IF r # Nil
            THEN /\ Return(CheckerResult(r, Nil), tr)
                 /\ UNCHANGED <<cmd, config>>
            ELSE /\ cmd' = [cmd EXCEPT !.Checker = "version checker"]
                 /\ config' = [config EXCEPT !.MinCLIVersion = "server minimum"]
                 /\ Return(CheckerResult(r, warn.err), warn.tr)
    /\ UNCHANGED <<server, deferred, prompts, credentials, passwordKeys,
                   rangeTodo, i, j, orgs>>

-----------------------------------------------------------------------------

Next ==
    \/ CheckExperimental
    \/ ResolveEndpoint
    \/ SetTarget
    \/ ReloadActor
    \/ CheckGrantType
    \/ ChooseFlow
    \/ GetLoginPrompts
    \/ PromptUsername
    \/ RangePrompts
    \/ PromptPassword
    \/ PromptSecret
    \/ Authenticate
    \/ GetLoginPromptsSSO
    \/ PromptPasscode
    \/ AuthenticateSSO
    \/ GetOrganizationByName
    \/ GetOrganizations
    \/ PromptChosenOrg
    \/ CheckMinCLIVersion

Spec == Init /\ [][Next]_vars

-----------------------------------------------------------------------------
(* Reading the log *)

Events(ev) == {k \in 1..Len(trace) : trace[k].ev = ev}
AuthCalls == Events("Authenticate")
CredentialPrompts == Events("Prompt")
Done == pc = "done"

\* the flags select both the SSO flow and an SSO passcode (a passcode that
\* was used has been cleared from cmd and left a Flag entry in the log)
BothSSOFlags ==
    /\ cmd.SSO
    /\ \/ cmd.SSOPasscode # ""
       \/ \E k \in Events("Flag") : trace[k].key = "passcode"

\* the run got as far as calling SetTarget
Started == Events("SetTarget") # {}

\* the target was set and the client rebuilt
ClientRebuilt == \E k \in Events("NewActor") : trace[k].res = Nil

\* the call of kind ev, which a run makes at most once
The(ev) == CHOOSE k \in Events(ev) : TRUE

\* the credential `key` was resolved at k: read successfully, or taken from a flag
Resolves(k, key) ==
    /\ trace[k].key = key
    /\ \/ trace[k].ev = "Flag"
       \/ trace[k].ev = "Prompt" /\ trace[k].res = Nil

\* the credential `key` was requested at k, from the user or from a flag
Requests(k, key) ==
    /\ trace[k].key = key
    /\ trace[k].ev \in {"Flag", "Prompt"}

\* the last Authenticate call so far returned an error
LastAuthFailed ==
    /\ AuthCalls # {}
    /\ trace[CHOOSE a \in AuthCalls : \A b \in AuthCalls : b <= a].res # Nil

-----------------------------------------------------------------------------
(* C1: in both flows a run calls Authenticate at most 3 times, and never
   again after an Authenticate call of the run returned success. *)
C1_AtMostThreeTriesStopAtSuccess ==
    /\ Cardinality(AuthCalls) <= 3
    /\ \A a, b \in AuthCalls : a < b => trace[a].res # Nil

\* a password-flow run whose third attempt succeeded and that then returned
C1_Witness ==
    /\ Done
    /\ result = Nil
    /\ Cardinality(AuthCalls) = 3
    /\ \E a \in AuthCalls :
        trace[a].try = 3 /\ trace[a].res = Nil /\ trace[a].by = "authenticate"

(* C2: in both flows an account-locked answer of Authenticate ends the retry
   loop: no credential prompt and no Authenticate call follows it. *)
C2_AccountLockedStopsLoop ==
    \A a \in AuthCalls :
        trace[a].res = AccountLockedError =>
            \A k \in CredentialPrompts \cup AuthCalls : k <= a

(* C3: a password given by flag is in the credentials of at most one
   Authenticate call of the password flow, the first; the password of every
   later call is the one read by the secret prompt of that same attempt. *)
C3_FlagPasswordUsedOnce ==
    \A a \in AuthCalls :
        (trace[a].by = "authenticate" /\ "password" \in DOMAIN trace[a].creds) =>
            IF trace[a].creds["password"] = FlagValue("-p")
            THEN trace[a].try = 1
            ELSE \E p \in CredentialPrompts :
                    /\ p < a
                    /\ trace[p].key = "password"
                    /\ trace[p].secret
                    /\ trace[p].try = trace[a].try
                    /\ trace[p].res = Nil
                    /\ trace[a].creds["password"] = Typed(p)

\* the scenario: the flag password fails, the typed one of attempt 2 succeeds
C3_Witness ==
    /\ server.prompts = ScenarioSchema
    /\ Cardinality(AuthCalls) = 2
    /\ \E a, b \in AuthCalls :
        /\ trace[a].by = "authenticate" /\ trace[b].by = "authenticate"
        /\ trace[a].try = 1 /\ trace[a].creds["password"] = FlagValue("-p")
        /\ trace[a].res = "uaa.UnauthorizedError"
        /\ trace[b].try = 2 /\ trace[b].creds["password"] # FlagValue("-p")
        /\ trace[b].res = Nil

(* C4: when the schema declares username as text and password as secret,
   in the password flow the username is resolved before the password is
   requested, and in every attempt the password is resolved before any other
   key the schema declares secret is requested. *)
C4_UsernamePasswordThenSecrets ==
    (/\ "username" \in DOMAIN prompts /\ "password" \in DOMAIN prompts
     /\ prompts["username"] = AuthPromptTypeText
     /\ prompts["password"] = AuthPromptTypePassword) =>
        \A k \in 1..Len(trace) :
            /\ (trace[k].by \in {"authenticate", "passwordPrompts"}
                /\ Requests(k, "password")) =>
                    \E u \in 1..(k - 1) : Resolves(u, "username")
            /\ (/\ trace[k].by \in {"authenticate", "passwordPrompts"}
                /\ trace[k].ev \in {"Flag", "Prompt"}
                /\ trace[k].key \in DOMAIN prompts
                /\ trace[k].key # "password"
                /\ prompts[trace[k].key] = AuthPromptTypePassword) =>
                    \E p \in 1..(k - 1) :
                        Resolves(p, "password") /\ trace[p].try = trace[k].try

\* the one-time code of the second attempt is asked after that attempt's
\* password, the username having been typed
C4_Witness ==
    /\ prompts = ScenarioSchema
    /\ \E u, p, o \in CredentialPrompts :
        /\ u < p /\ p < o
        /\ trace[u].key = "username" /\ trace[u].res = Nil
        /\ trace[p].key = "password" /\ trace[p].try = 2 /\ trace[p].res = Nil
        /\ trace[o].key = "otp" /\ trace[o].try = 2

(* C5 as stated: a run given both the SSO toggle and an SSO passcode ends
   with the argument-combination error, without a credential prompt and
   without an Authenticate call. *)
C5_BothFlagsAlwaysArgumentError ==
    (BothSSOFlags /\ Started /\ Done) =>
        /\ result = ArgumentCombinationError
        /\ CredentialPrompts = {}
        /\ AuthCalls = {}

(* C5 amended: a run given both the SSO toggle and an SSO passcode issues
   no credential prompt and calls Authenticate never; once the client is
   rebuilt and the session is not a service account's, it ends with the
   argument-combination error. *)
C5_BothFlagsNoPromptThenArgumentError ==
    BothSSOFlags =>
        /\ CredentialPrompts = {}
        /\ AuthCalls = {}
        /\ (Done /\ ClientRebuilt /\ config.UAAGrantType # "client_credentials") =>
                result = ArgumentCombinationError

C5_Witness ==
    /\ BothSSOFlags
    /\ Done
    /\ result = ArgumentCombinationError
    /\ trace[Len(trace)].ev = "showStatus"

\* the organization list a successful GetOrganizations answered with has n entries
Listed(n) ==
    /\ cmd.Organization = 0
    /\ Events("GetOrganizations") # {}
    /\ trace[The("GetOrganizations")].res = Nil
    /\ trace[The("GetOrganizations")].try = n

\* the menu was shown and answered with res
MenuAnswered(res) ==
    /\ Events("DisplayTextMenu") # {}
    /\ trace[The("DisplayTextMenu")].res = res

(* C6 as stated: with no organization requested, an empty list records no
   organization and the run returns no error; a list of one records that
   organization without the menu; a longer list with the menu declined
   records no organization and the run returns no error. *)
C6_OrgCasesRunReturnsNoError ==
    Done =>
        /\ Listed(0) =>
            Events("SetOrganizationInformation") = {} /\ result = Nil
        /\ Listed(1) =>
            /\ Events("DisplayTextMenu") = {}
            /\ \E k \in Events("SetOrganizationInformation") : trace[k].org = Org(1)
        /\ (\E n \in 2..(MaxOrgs + 1) : Listed(n)) /\ MenuAnswered(EOF) =>
            Events("SetOrganizationInformation") = {} /\ result = Nil

\* the organization stage returned no error: the run went on to the version
\* check, and returns what that stage returns
OrgStageNoError ==
    /\ Events("NewVersionChecker") # {}
    /\ result = trace[The("NewVersionChecker")].res

(* C6 amended: in the cases of an empty list and of a declined menu no
   organization is recorded and the organization stage returns no error:
   the run goes on to the version check and returns that stage's result;
   a list of one records that organization without the menu. *)
C6_OrgCasesStageReturnsNoError ==
    Done =>
        /\ Listed(0) =>
            Events("SetOrganizationInformation") = {} /\ OrgStageNoError
        /\ Listed(1) =>
            /\ Events("DisplayTextMenu") = {}
            /\ \E k \in Events("SetOrganizationInformation") : trace[k].org = Org(1)
        /\ (\E n \in 2..(MaxOrgs + 1) : Listed(n)) /\ MenuAnswered(EOF) =>
            Events("SetOrganizationInformation") = {} /\ OrgStageNoError

C6_Witness ==
    /\ Done
    /\ Listed(2)
    /\ MenuAnswered(EOF)
    /\ Events("SetOrganizationInformation") = {}
    /\ result = Nil

\* the status report was rendered once, as the last thing the run did
StatusOnceAtExit ==
    /\ Cardinality(Events("showStatus")) = 1
    /\ trace[Len(trace)].ev = "showStatus"

(* C7 as stated: every run that returns has rendered the status report
   exactly once, unless it halted because SetTarget failed. *)
C7_StatusUnlessSetTargetFailed ==
    (Done /\ Started /\ trace[The("SetTarget")].res = Nil) => StatusOnceAtExit

(* C7 amended: every run that returns after the client was rebuilt has
   rendered the status report exactly once, as its last step; a run that
   halts earlier (command not enabled, endpoint read failure, endpoint
   that does not parse, SetTarget failure, client rebuild failure) renders
   none, and none is rendered before the run returns. *)
C7_StatusOnceAfterClientRebuilt ==
    IF Done /\ ClientRebuilt
    THEN StatusOnceAtExit
    ELSE Events("showStatus") = {}

C7_Witness ==
    /\ Done
    /\ result = "list error"
    /\ StatusOnceAtExit

(* C8 as stated: whatever the version check's outcome, a run that reached
   it returns no error. *)
C8_VersionCheckNeverFails ==
    (Done /\ Events("NewVersionChecker") # {}) => result = Nil

(* C8 amended: a client older than the declared minimum only draws a
   warning: a run that reached the version check and constructed its client
   returns no error; when the version-check client cannot be constructed
   the run returns that error and records no minimum version. *)
C8_OnlyCheckerConstructionFails ==
    (Done /\ Events("NewVersionChecker") # {}) =>
        IF trace[The("NewVersionChecker")].res = Nil
        THEN /\ result = Nil
             /\ Events("WarnIfCLIVersionBelowAPIDefinedMinimum") # {}
        ELSE /\ result = trace[The("NewVersionChecker")].res
             /\ Events("SetMinCLIVersion") = {}

C8_Witness ==
    /\ Done
    /\ result = Nil
    /\ \E k \in Events("WarnIfCLIVersionBelowAPIDefinedMinimum") :
        trace[k].res = "warning"

(* C9: when the last Authenticate call returned an error, the run returns
   the generic "Unable to authenticate." and performs neither organization
   lookup, listing or recording nor the version check. *)
C9_AuthFailureIsGenericAndFinal ==
    LastAuthFailed =>
        /\ Done => result = "Unable to authenticate."
        /\ \A k \in 1..Len(trace) :
            trace[k].ev \notin {"GetOrganizationByName", "GetOrganizations",
                                "DisplayTextMenu", "SetOrganizationInformation",
                                "NewVersionChecker", "SetMinCLIVersion",
                                "WarnIfCLIVersionBelowAPIDefinedMinimum"}

\* the retries are exhausted
C9_Witness ==
    /\ Done
    /\ result = "Unable to authenticate."
    /\ Cardinality(AuthCalls) = 3
    /\ \A a \in AuthCalls : trace[a].res = "uaa.UnauthorizedError"

(* C10 as stated: when the session's grant is client_credentials the run
   ends with the service-account error, and fetches no login prompts, issues
   no credential prompt and calls Authenticate never. *)
C10_ServiceAccountAlwaysRefused ==
    (config.UAAGrantType = "client_credentials" /\ Started /\ Done) =>
        /\ result = ServiceAccountError
        /\ Events("GetLoginPrompts") = {}
        /\ CredentialPrompts = {}
        /\ AuthCalls = {}

(* C10 amended: when the session's grant is client_credentials the run
   fetches no login prompts, issues no credential prompt and calls
   Authenticate never; once the target is set and the client rebuilt, it
   ends with the service-account error. *)
C10_ServiceAccountRefusedAfterRebuild ==
    config.UAAGrantType = "client_credentials" =>
        /\ Events("GetLoginPrompts") = {}
        /\ CredentialPrompts = {}
        /\ AuthCalls = {}
        /\ (Done /\ ClientRebuilt) => result = ServiceAccountError

C10_Witness ==
    /\ config.UAAGrantType = "client_credentials"
    /\ Done
    /\ result = ServiceAccountError
    /\ Events("GetLoginPrompts") = {}

-----------------------------------------------------------------------------
\* calls that record an organization in the session store
OrgRecordings == Events("SetOrganizationInformation")

(* C11: a run records an organization at most once, and only the one that
   was selected: the organization the lookup by the requested name returned,
   the only organization of the list, or the organization of the list whose
   name is the menu choice.  A failed lookup by name records nothing and the
   run returns the error of the lookup. *)
C11_OrgRecordedOnceAsSelected ==
    /\ Cardinality(OrgRecordings) <= 1
    /\ config.org # emptyOrg => OrgRecordings # {}
    /\ \A k \in OrgRecordings :
        /\ config.org = trace[k].org
        /\ \/ /\ cmd.Organization # 0
              /\ \E g \in Events("GetOrganizationByName") :
                    /\ g < k
                    /\ trace[g].res = Nil
                    /\ trace[g].name = cmd.Organization
                    /\ trace[k].org = trace[g].org
           \/ Listed(1) /\ trace[k].org = OrgList(1)[1]
           \/ /\ cmd.Organization = 0
              /\ MenuAnswered(Nil)
              /\ \E g \in Events("GetOrganizations") :
                    /\ trace[g].res = Nil
                    /\ trace[g].try > 1
                    /\ \E m \in 1..trace[g].try : trace[k].org = OrgList(trace[g].try)[m]
              /\ trace[k].org.Name = trace[The("DisplayTextMenu")].name
    /\ \A g \in Events("GetOrganizationByName") :
        trace[g].res # Nil =>
            /\ OrgRecordings = {}
            /\ config.org = emptyOrg
            /\ Done /\ result = trace[g].res

\* three organizations are listed, the second is chosen and recorded once
C11_Witness ==
    /\ Done /\ result = Nil
    /\ Listed(3)
    /\ MenuAnswered(Nil)
    /\ trace[The("DisplayTextMenu")].name = 2
    /\ Cardinality(OrgRecordings) = 1
    /\ \A k \in OrgRecordings : trace[k].org = Org(2)
    /\ config.org = Org(2)

-----------------------------------------------------------------------------
\* s without its trailing "/" characters
Stripped(s) ==
    CHOOSE t \in {SubSeq(s, 1, n) : n \in 0..Len(s)} :
        /\ t = <<>> \/ t[Len(t)] # "/"
        /\ \A k \in (Len(t) + 1)..Len(s) : s[k] = "/"

\* s starts with a URI scheme: a scheme word and "://"
HasURIScheme(s) ==
    /\ Len(s) >= 4
    /\ s[1] \in SchemeWords
    /\ s[2] = ":" /\ s[3] = "/" /\ s[4] = "/"

\* the URL the endpoint stands for: its scheme kept, https when it has none
Normalised(s) ==
    IF HasURIScheme(Stripped(s))
    THEN Stripped(s)
    ELSE <<"https", ":", "/", "/">> \o Stripped(s)

(* C12: the URL passed to SetTarget is the endpoint without its trailing
   "/" characters, with "https://" put in front when the endpoint has no
   scheme and unchanged otherwise; the certificate check is skipped exactly
   when the configuration or the flag says so. *)
C12_TargetURLNormalised ==
    \A k \in Events("SetTarget") :
        /\ trace[k].url = Normalised(cmd.APIEndpoint)
        /\ trace[k].skip = (config.SkipSSLValidation \/ cmd.SkipSSLValidation)

-----------------------------------------------------------------------------
\* the interactive reads that failed, the declined menu apart
FailedReads ==
    {k \in 1..Len(trace) :
        /\ trace[k].ev \in {"DisplayTextPrompt(API endpoint)", "Prompt", "DisplayTextMenu"}
        /\ trace[k].res # Nil
        /\ ~(trace[k].ev = "DisplayTextMenu" /\ IsDecline(trace[k].res))}

\* the run ended at the call k: nothing but the status table came after it
AbortedAt(k) ==
    /\ Done
    /\ \A m \in (k + 1)..Len(trace) : trace[m].ev = "showStatus"

(* C13 as stated: an interactive read that fails, the declined menu apart,
   ends the run at once, and the run returns the error of that read. *)
C13_ReadErrorReturnedAsIs ==
    \A k \in FailedReads : AbortedAt(k) /\ result = trace[k].res

(* C13: an interactive read that fails, the declined menu apart, ends the
   run at once, with no retry and no further Authenticate call.  The run
   returns the error of the read when it was the endpoint prompt or the
   organization menu, and "Unable to authenticate." when it was a credential
   prompt of either flow. *)
C13_ReadErrorAbortsGenericInFlows ==
    \A k \in FailedReads :
        /\ AbortedAt(k)
        /\ result = IF trace[k].ev = "Prompt"
                    THEN UnableToAuthenticate
                    ELSE trace[k].res

\* the secret prompt of the second attempt fails: one Authenticate call was
\* made, none follows, and the run returns the generic error
C13_Witness ==
    /\ Done /\ result = UnableToAuthenticate
    /\ Cardinality(AuthCalls) = 1
    /\ \E k \in FailedReads :
        /\ trace[k].ev = "Prompt" /\ trace[k].secret
        /\ trace[k].try = 2
        /\ trace[k].res = "read error"
        /\ \A a \in AuthCalls : a < k /\ trace[a].res # Nil

-----------------------------------------------------------------------------
\* the Authenticate calls of the SSO flow
SSOAuthCalls == {a \in AuthCalls : trace[a].by = "authenticateSSO"}

(* C14: in the SSO flow the passcode of the command line is submitted by
   the first Authenticate call only; every later call submits a passcode
   read by a secret prompt of its own attempt; and the credentials of every
   call are the key "passcode" and nothing else. *)
C14_SSOPasscodeFlagFirstAttemptOnly ==
    /\ \A a \in SSOAuthCalls :
        /\ DOMAIN trace[a].creds = {"passcode"}
        /\ IF trace[a].creds["passcode"] = FlagValue("--sso-passcode")
           THEN trace[a].try = 1
           ELSE \E p \in CredentialPrompts :
                /\ p < a
                /\ trace[p].by = "authenticateSSO"
                /\ trace[p].key = "passcode" /\ trace[p].secret
                /\ trace[p].try = trace[a].try
                /\ trace[p].res = Nil
                /\ trace[a].creds["passcode"] = Typed(p)
    /\ \A k \in 1..Len(trace) :
        trace[k].by = "authenticateSSO" /\ Requests(k, "passcode") =>
            /\ trace[k].ev = "Flag" => trace[k].try = 1
            /\ trace[k].ev = "Prompt" => trace[k].secret

\* the passcode of the command line was refused, the second attempt
\* submitted a passcode read by a secret prompt
C14_Witness ==
    \E a, b \in SSOAuthCalls :
        /\ trace[a].try = 1 /\ trace[a].res # Nil
        /\ trace[a].creds["passcode"] = FlagValue("--sso-passcode")
        /\ trace[b].try = 2
        /\ trace[b].creds["passcode"] # FlagValue("--sso-passcode")
        /\ DOMAIN trace[b].creds = {"passcode"}

-----------------------------------------------------------------------------
\* the calls the password flow made
PasswordFlowCalls ==
    {k \in 1..Len(trace) : trace[k].by \in {"authenticate", "passwordPrompts"}}

\* the server declares the passcode as a plain-text prompt
PasscodeIsText ==
    /\ "passcode" \in DOMAIN server.prompts
    /\ server.prompts["passcode"] = AuthPromptTypeText

(* C15 as stated: whatever the server declares, the password flow never
   requests the key "passcode" and never submits credentials holding it. *)
C15_PasswordFlowNeverPasscode ==
    \A k \in PasswordFlowCalls :
        /\ ~Requests(k, "passcode")
        /\ trace[k].ev = "Authenticate" => "passcode" \notin DOMAIN trace[k].creds

(* What the code does about C15: the password flow requests and submits
   the key "passcode" exactly when the server declares it as a plain-text
   prompt; then it is read once, as plain text, before the first attempt
   and submitted by every Authenticate call. *)
C15_PasswordFlowPasscodeOnlyAsText ==
    \A k \in PasswordFlowCalls :
        /\ Requests(k, "passcode") =>
            /\ PasscodeIsText
            /\ trace[k].ev = "Prompt" /\ ~trace[k].secret /\ trace[k].try = 0
            /\ \A m \in PasswordFlowCalls : Requests(m, "passcode") => m = k
        /\ trace[k].ev = "Authenticate" =>
            ("passcode" \in DOMAIN trace[k].creds <=> PasscodeIsText)

\* the server declares passcode and otp as secrets: the second attempt
\* submits the otp and no passcode
C15_Witness ==
    /\ "passcode" \in DOMAIN server.prompts
    /\ server.prompts["passcode"] = AuthPromptTypePassword
    /\ \E a \in AuthCalls :
        /\ trace[a].by = "authenticate" /\ trace[a].try = 2
        /\ "otp" \in DOMAIN trace[a].creds
        /\ "passcode" \notin DOMAIN trace[a].creds
    /\ \A k \in PasswordFlowCalls : ~Requests(k, "passcode")

-----------------------------------------------------------------------------
\* the calls that go to the network
NetworkEvents ==
    {"SetTarget", "NewActor", "GetLoginPrompts", "Authenticate",
     "GetOrganizationByName", "GetOrganizations"}
NetworkCalls == {k \in 1..Len(trace) : trace[k].ev \in NetworkEvents}

(* C16 as stated: a run that reports the argument-combination error for the
   SSO toggle and the SSO passcode has made no network call before it. *)
C16_ArgumentErrorBeforeAnyNetworkCall ==
    result = ArgumentCombinationError => NetworkCalls = {}

(* C16: with both the SSO toggle and an SSO passcode, the run fetches no
   login prompts, makes no Authenticate call and no organization call; the
   argument-combination error is reported after exactly two network calls,
   the successful SetTarget and the successful rebuild of the client. *)
C16_ArgumentErrorAfterTargetAndRebuild ==
    /\ BothSSOFlags =>
        \A k \in NetworkCalls : trace[k].ev \in {"SetTarget", "NewActor"}
    /\ result = ArgumentCombinationError =>
        /\ BothSSOFlags
        /\ {trace[k].ev : k \in NetworkCalls} = {"SetTarget", "NewActor"}
        /\ \A k \in NetworkCalls : trace[k].res = Nil

\* both flags are given: the error follows SetTarget and the rebuild
C16_Witness ==
    /\ Done /\ result = ArgumentCombinationError
    /\ cmd.SSO /\ cmd.SSOPasscode # ""
    /\ Cardinality(NetworkCalls) = 2
    /\ Events("GetLoginPrompts") = {} /\ AuthCalls = {}

-----------------------------------------------------------------------------
\* the runs of checkMinCLIVersion, which starts with NewVersionChecker
VersionChecks == Events("NewVersionChecker")

\* an Authenticate call of the run returned success
AuthSucceeded == \E a \in AuthCalls : trace[a].res = Nil

\* the organization stage returned an error: the lookup or the listing
\* failed, the menu could not be read, or its answer names no listed
\* organization
OrgStageFailed ==
    \/ \E g \in Events("GetOrganizationByName") \cup Events("GetOrganizations") :
          trace[g].res # Nil
    \/ \E k \in Events("DisplayTextMenu") :
          \/ trace[k].res # Nil /\ ~IsDecline(trace[k].res)
          \/ /\ trace[k].res = Nil
             /\ trace[k].name \notin 1..trace[The("GetOrganizations")].try

\* the minimum version is recorded before the client is compared with it
MinimumRecordedBeforeComparison ==
    \A w \in Events("WarnIfCLIVersionBelowAPIDefinedMinimum") :
        /\ \E m \in Events("SetMinCLIVersion") : m < w
        /\ config.MinCLIVersion # ""

(* C17 as stated: the version check runs only after a successful
   authentication, and in every run whose authentication succeeded,
   whatever became of the organization; the minimum version is recorded
   before the comparison. *)
C17_VersionCheckAfterEveryAuthSuccess ==
    /\ \A v \in VersionChecks : \E a \in AuthCalls : a < v /\ trace[a].res = Nil
    /\ Done /\ AuthSucceeded => VersionChecks # {}
    /\ MinimumRecordedBeforeComparison

(* C17: the version check runs only after a successful authentication, at
   most once, and in a run whose authentication succeeded exactly when the
   organization stage returned no error: after a successful lookup, an
   empty list, a list of one, a menu choice and a declined menu, but not
   after a failed lookup, a failed listing or a failed menu.  The minimum
   version is recorded before the comparison. *)
C17_VersionCheckUnlessOrgStageFailed ==
    /\ Cardinality(VersionChecks) <= 1
    /\ \A v \in VersionChecks : \E a \in AuthCalls : a < v /\ trace[a].res = Nil
    /\ Done /\ AuthSucceeded => (VersionChecks # {} <=> ~OrgStageFailed)
    /\ MinimumRecordedBeforeComparison

\* no organization is listed, none is recorded, and the version is checked
C17_Witness ==
    /\ Done /\ AuthSucceeded
    /\ Listed(0)
    /\ OrgRecordings = {}
    /\ Events("SetMinCLIVersion") # {}
    /\ Events("WarnIfCLIVersionBelowAPIDefinedMinimum") # {}
    /\ The("SetMinCLIVersion") < The("WarnIfCLIVersionBelowAPIDefinedMinimum")

-----------------------------------------------------------------------------
\* the calls of the authenticated phase that go to the Actor
ActorCalls ==
    {k \in 1..Len(trace) :
        trace[k].ev \in {"GetLoginPrompts", "Authenticate",
                         "GetOrganizationByName", "GetOrganizations"}}
OrgCalls == Events("GetOrganizationByName") \cup Events("GetOrganizations")

\* SetTarget succeeded
TargetSet == \E t \in Events("SetTarget") : trace[t].res = Nil

(* C18: the stages come in the order target set, client rebuilt,
   authenticated, organization resolved, version checked, each only after
   the one before it succeeded.  The client is rebuilt exactly once, after
   the successful SetTarget and before the login prompts are fetched; the
   login prompts, every Authenticate call and every organization call go to
   the rebuilt client, SetTarget to the one before it.  What the command
   and the session store hold agrees with the stages the log shows. *)
C18_StagesInOrderOnRebuiltClient ==
    /\ Cardinality(Events("SetTarget")) <= 1
    /\ Cardinality(Events("NewActor")) <= 1
    /\ \A t \in Events("SetTarget") : trace[t].client = "pre-target"
    /\ \A n \in Events("NewActor") :
        \E t \in Events("SetTarget") : t < n /\ trace[t].res = Nil
    /\ TargetSet /\ pc # "reload" => Events("NewActor") # {}
    /\ \A k \in ActorCalls :
        /\ trace[k].client = "post-target"
        /\ \E n \in Events("NewActor") : n < k /\ trace[n].res = Nil
    /\ \A g \in OrgCalls : \E a \in AuthCalls : a < g /\ trace[a].res = Nil
    /\ \A v \in VersionChecks :
        /\ \E g \in OrgCalls : g < v /\ trace[g].res = Nil
        /\ ~OrgStageFailed
    /\ cmd.Actor = "post-target" <=> ClientRebuilt
    /\ config.org # emptyOrg <=> OrgRecordings # {}
    /\ config.MinCLIVersion # "" <=> Events("SetMinCLIVersion") # {}

\* a run through all five stages
C18_Witness ==
    /\ Done /\ result = Nil
    /\ TargetSet /\ ClientRebuilt /\ AuthSucceeded
    /\ \E g \in Events("GetOrganizationByName") :
        trace[g].res = Nil /\ trace[g].client = "post-target"
    /\ Events("GetLoginPrompts") # {}
    /\ trace[The("SetTarget")].client = "pre-target"
    /\ Events("WarnIfCLIVersionBelowAPIDefinedMinimum") # {}
    /\ cmd.Actor = "post-target"

-----------------------------------------------------------------------------
(* C19: the warnings SetTarget returned are displayed before the run ends,
   whether SetTarget succeeded or failed. *)
C19_TargetWarningsDisplayed ==
    Done =>
        \A t \in Events("SetTarget") :
            trace[t].warnings # <<>> =>
                \E d \in Events("DisplayWarnings") :
                    d > t /\ trace[d].warnings = trace[t].warnings

-----------------------------------------------------------------------------
\* the prompts of the password flow
PasswordFlowPrompts == PasswordFlowCalls \cap CredentialPrompts

\* the attempt a prompt serves first: a prompt before the loop serves the
\* first attempt
AttemptOf(k) == IF trace[k].try = 0 THEN 1 ELSE trace[k].try

(* C20: in the password flow, for every schema, no key is prompted for
   twice for the same Authenticate attempt, and a key that is prompted for
   again in a later attempt is declared as a secret: a key declared as
   plain text, and the username, is prompted for at most once in a run. *)
C20_NoKeyPromptedTwicePerAttempt ==
    \A k, m \in PasswordFlowPrompts :
        k # m /\ trace[k].key = trace[m].key =>
            /\ AttemptOf(k) # AttemptOf(m)
            /\ trace[k].key # "username"
            /\ server.prompts[trace[k].key] = AuthPromptTypePassword

====
